---- MODULE Spec2Model ----
(***************************************************************************)
(* Model of the Scout conversation-turn orchestrator                       *)
(* (with-supabase-app/lib/assistant/orchestrator.ts) and of the handler of *)
(* POST /api/scout-process (with-supabase-app/app/api/scout-process/       *)
(* route.ts), which is modelled the same way under SpecRoute.              *)
(*                                                                         *)
(* A turn is one call of ScoutAssistantOrchestrator.run.  run is an async  *)
(* function: the code between two awaits executes atomically, so every     *)
(* action below is "a collaborator answers the pending await of turn t and *)
(* run continues up to its next await, its return or its throw".           *)
(*                                                                         *)
(* Representation of JavaScript values:                                    *)
(*   - an object is a record; an optional property that is absent is a     *)
(*     field that is not in the record's DOMAIN;                           *)
(*   - null is the record Null;                                            *)
(*   - a string that the code only passes around is a TLA+ string; a text  *)
(*     on which the code computes (trim, emptiness) is a sequence of       *)
(*     tokens, a token being a blank " " or a run of non-blank characters; *)
(*   - a Record<string, unknown> mapping is a set of <<key, value>> pairs. *)
(***************************************************************************)
EXTENDS Naturals, Sequences, FiniteSets, TLC

VARIABLES
    orchestratorInstance,   \* the ScoutAssistantOrchestrator (its private fields)
    now,                    \* Date.now()
    turn,                   \* turn[t]: the frame of the t-th call of run
    linkupClient,           \* scout-process/route.ts: the module's LinkupClient or null
    supabaseEnv,            \* NEXT_PUBLIC_SUPABASE_URL and _ANON_KEY are both set
    post,                   \* the frame of a call of POST /api/scout-process
    db                      \* the rows of the tables search_runs and recommendations

routeVars == <<linkupClient, supabaseEnv, post, db>>

vars == <<orchestratorInstance, now, turn, linkupClient, supabaseEnv, post, db>>

-----------------------------------------------------------------------------
(* Bounds *)

MaxQueries == 2             \* longest search_queries list the analyzer returns
MaxClock == 1               \* Date.now() advances at most this far
MaxHistory == 7             \* longest conversation handed to run under SpecWindow

Turns == {1, 2}             \* calls of run that exist in the model
SoloTurns == {1}            \* calls of run that are started under Spec

-----------------------------------------------------------------------------
(* JavaScript values *)

Null == [null |-> TRUE]

Has(obj, field) == field \in DOMAIN obj

WS == " "

EmptyText == <<>>

RECURSIVE TrimStart(_)
TrimStart(s) ==
    IF s # <<>> /\ Head(s) = WS THEN TrimStart(Tail(s)) ELSE s

RECURSIVE TrimEnd(_)
TrimEnd(s) ==
    IF s # <<>> /\ s[Len(s)] = WS THEN TrimEnd(SubSeq(s, 1, Len(s) - 1)) ELSE s

\* String.prototype.trim
Trim(s) == TrimEnd(TrimStart(s))

\* a well-formed JSON text that encodes the value v, and texts that are not JSON
JsonText(v) == [json |-> v]
MalformedText == [malformed |-> TRUE]
EmptyString == [malformed |-> FALSE]

\* safeJsonParse with a best-effort default instead of null
safeJsonParseBestEffort(value) ==
    IF Has(value, "json")
    THEN value.json
    ELSE [ stage |-> "collecting", summary |-> "", missing_information |-> <<>>,
           search_queries |-> <<>>, should_call_linkup |-> FALSE,
           should_call_scout |-> FALSE ]

safeJsonParse(value) ==
    IF Has(value, "json") THEN value.json ELSE Null

\* JavaScript truthiness of a parsed JSON value that is null or an object
Truthy(v) == v # Null

-----------------------------------------------------------------------------
(* Constants of the source *)

DEFAULT_LINKUP_API_URL == "https://api.linkup.so/v1/search"
DEFAULT_MODEL == "gpt-4.1-mini"
COLLECTING_FALLBACK ==
    <<"I need a bit more detail to keep planning. Could you clarify what you have in mind?">>
FINAL_FALLBACK == <<"Here's", WS, "what", WS, "I", WS, "found", WS, "for", WS, "you.">>
ANALYSIS_FAILED == "OpenAI analysis failed to return a valid directive"
PRUNE_LIMIT == 6

\* pruneConversation keeping the head of the conversation: slice(0, limit)
pruneConversationHead(messages, limit) ==
    IF Len(messages) <= limit
    THEN messages
    ELSE SubSeq(messages, 1, limit)

pruneConversation(messages, limit) ==
    IF Len(messages) <= limit
    THEN messages
    ELSE SubSeq(messages, Len(messages) - limit + 1, Len(messages))

-----------------------------------------------------------------------------
(* Construction (constructor, getOrchestrator) *)

\* OrchestratorConfig values getOrchestrator can build from the environment:
\* LINKUP_API_KEY unset, set to "" or set to a key; LINKUP_API_URL unset or
\* set to "".
OrchestratorConfigs ==
    LET base == [openaiApiKey |-> "sk-openai", scoutApiUrl |-> "https://scout/process"]
        withKey(c) == {c, c @@ [linkupApiKey |-> ""], c @@ [linkupApiKey |-> "linkup-key"]}
        withUrl(c) == {c, c @@ [linkupApiUrl |-> ""]}
    IN  UNION {withKey(c) : c \in withUrl(base)}

\* constructor: the private fields callLinkup and callScoutProcessor read
Constructor(config) ==
    LET fields == [ model |-> DEFAULT_MODEL,
                    scoutApiUrl |-> config.scoutApiUrl,
                    linkupApiUrl |-> IF Has(config, "linkupApiUrl")
                                     THEN config.linkupApiUrl
                                     ELSE DEFAULT_LINKUP_API_URL,
                    linkupDepth |-> "standard",
                    linkupOutputType |-> "sourcedAnswer" ]
    IN  IF Has(config, "linkupApiKey")
        THEN fields @@ [linkupApiKey |-> config.linkupApiKey]
        ELSE fields

\* the guard of callLinkup without its test of the key
LinkupUnconfiguredUrlOnly(self) == self.linkupApiUrl = ""

\* !this.linkupApiUrl || !this.linkupApiKey
LinkupUnconfigured(self) ==
    self.linkupApiUrl = "" \/ ~Has(self, "linkupApiKey") \/ self.linkupApiKey = ""

buildLinkupPayload(self, query) ==
    [ q |-> query,
      depth |-> self.linkupDepth,
      outputType |-> self.linkupOutputType,
      includeSources |-> TRUE,
      includeInlineCitations |-> FALSE,
      includeImages |-> FALSE ]

-----------------------------------------------------------------------------
(* Inputs of a turn and answers of the collaborators *)

ChatMessage(i) ==
    [role |-> IF i % 2 = 1 THEN "user" ELSE "assistant", content |-> <<"message", i>>]

Conversation(n) == [i \in 1..n |-> ChatMessage(i)]

\* RunOptions: sessionId is optional
RunOptionsSet ==
    LET base == {[messages |-> Conversation(PRUNE_LIMIT + 1), useFullHistory |-> b] :
                    b \in BOOLEAN}
    IN  base \cup {o @@ [sessionId |-> <<"s1">>] : o \in base}

Stages == {"collecting", "searching", "finalizing"}

QueryTexts == {"romantic restaurants paris", "paris museums"}

SearchQueryLists == UNION {[1..n -> QueryTexts] : n \in 0..MaxQueries}

FollowUpQuestion == <<"When are you traveling and what's your budget?">>

\* directives that conform to the ScoutPlanningDirective schema (lines 265-297)
ConformingDirectives ==
    LET required ==
            [ stage : Stages,
              summary : {"dinner in Paris"},
              missing_information : {<<"dates", "budget">>},
              search_queries : SearchQueryLists,
              should_call_linkup : BOOLEAN,
              should_call_scout : BOOLEAN ]
        withFollowUp(d) ==
            {d, d @@ [follow_up_question |-> EmptyText],
                d @@ [follow_up_question |-> FollowUpQuestion]}
        withPrompt(d) == {d, d @@ [scout_prompt |-> "romantic dinner, Paris"]}
    IN  UNION {withFollowUp(p) : p \in UNION {withPrompt(d) : d \in required}}

\* JSON objects that parse but do not conform: a stage outside the enum, a
\* missing required field (summary)
NonConformingDirectives ==
    { [ stage |-> "booking", summary |-> "dinner in Paris",
        missing_information |-> <<>>, search_queries |-> <<>>,
        should_call_linkup |-> FALSE, should_call_scout |-> FALSE ],
      [ stage |-> "finalizing",
        missing_information |-> <<>>, search_queries |-> <<>>,
        should_call_linkup |-> FALSE, should_call_scout |-> TRUE ] }

\* the ScoutPlanningDirective schema the response_format names (lines 261-299)
ConformsToSchema(d) == d \in ConformingDirectives

\* answers of client.responses.create for the analysis: output_text is optional
AnalyzerResponses ==
    {[id |-> "resp"], [id |-> "resp", output_text |-> MalformedText],
     [id |-> "resp", output_text |-> EmptyString],
     [id |-> "resp", output_text |-> JsonText(Null)]}
    \cup {[id |-> "resp", output_text |-> JsonText(d)] :
            d \in ConformingDirectives \cup NonConformingDirectives}

\* answers of fetch(this.linkupApiUrl): a 2xx with a JSON body, a 2xx whose
\* body is not JSON, a non-2xx with a text body, or a rejected promise
LinkupReplies ==
    { [kind |-> "response", ok |-> TRUE, status |-> 200, body |-> JsonText("sourced answer")],
      [kind |-> "response", ok |-> TRUE, status |-> 200, body |-> MalformedText],
      [kind |-> "response", ok |-> FALSE, status |-> 500, body |-> JsonText("upstream down")],
      [kind |-> "reject", message |-> "fetch failed"] }

SomeParameters == {<<"category", "restaurant">>, <<"vibe", "romantic">>}

\* answers of fetch(this.scoutApiUrl) that do not reject: the JSON body of a
\* 2xx is cast, not checked, so "parameters" may be missing from it
ScoutReplies ==
    { [ok |-> TRUE, status |-> 200,
       data |-> [prompt |-> "p", parameters |-> SomeParameters, meta |-> {}]],
      [ok |-> TRUE, status |-> 200,
       data |-> [prompt |-> "p", parameters |-> {}, meta |-> {}]],
      [ok |-> TRUE, status |-> 200, data |-> [prompt |-> "p", meta |-> {}]],
      [ok |-> FALSE, status |-> 500] }

\* answers of client.responses.create for the final message
GeneratedTexts == {EmptyText, <<WS>>, <<WS, "Try", WS, "Septime.", WS>>, <<"Sure.">>}

ComposerResponses ==
    {[id |-> "resp"]} \cup {[id |-> "resp", output_text |-> g] : g \in GeneratedTexts}

-----------------------------------------------------------------------------
(* The frame of one call of run *)

\* pc: "idle" (not called), "awaitAnalysis", "awaitLinkup", "awaitScout",
\* "awaitCompose" (suspended at that await), "done" (returned), "failed" (threw)
IdleFrame ==
    [ pc |-> "idle",
      opts |-> Null,                \* the RunOptions argument
      resolvedSessionId |-> <<>>,
      analysis |-> Null,
      results |-> <<>>,             \* callLinkup's local accumulator
      startedAt |-> 0,              \* callLinkup's startedAt of the pending fetch
      linkupResults |-> <<>>,
      scoutResponse |-> Null,
      parameters |-> {},
      result |-> Null,              \* the OrchestratorResult run resolved with
      error |-> "",                 \* the message of the Error run rejected with
      linkupCalls |-> 0,            \* calls of callLinkup made by this call of run
      hung |-> FALSE,               \* the pending fetch will never settle
      cancelled |-> FALSE,          \* the caller has abandoned this call
      sentAtCancel |-> 0,           \* requests sent before the caller abandoned it
      \* requests this call has sent to each collaborator, in order, and the
      \* answers that came back
      analyzerRequests |-> <<>>,
      analyzerAnswers |-> <<>>,
      linkupRequests |-> <<>>,
      linkupAnswers |-> <<>>,
      scoutRequests |-> <<>>,
      scoutAnswers |-> <<>>,
      composerRequests |-> <<>>,
      composerAnswers |-> <<>> ]

Throw(f, message) == [f EXCEPT !.pc = "failed", !.error = message]

Return(f, result) == [f EXCEPT !.pc = "done", !.result = result]

-----------------------------------------------------------------------------
(* generateFinalMessage *)

\* line 465: (response.output_text ?? "Here's what I found for you.").trim()
generateFinalMessageText(response) ==
    Trim(IF Has(response, "output_text") THEN response.output_text ELSE FINAL_FALLBACK)

\* lines 447-463: the request to the text-generation collaborator
generateFinalMessage(f, linkupResults, parameters) ==
    [f EXCEPT !.pc = "awaitCompose",
              !.composerRequests = Append(@,
                  [ conversation |-> pruneConversation(f.opts.messages, PRUNE_LIMIT),
                    analysis |-> f.analysis,
                    linkupResults |-> linkupResults,
                    parameters |-> parameters ])]

-----------------------------------------------------------------------------
(* run, from the bottom up *)

\* the result reporting a search as attempted whenever there are queries
FinalResultQueriesAttempted(self, f, assistantMessage) ==
    [ sessionId |-> f.resolvedSessionId,
      stage |-> f.analysis.stage,
      assistantMessage |-> assistantMessage,
      missingInformation |-> f.analysis.missing_information,
      analysis |-> f.analysis,
      parameters |-> f.parameters,
      linkup |-> [ attempted |-> Len(f.analysis.search_queries) > 0,
                   queries |-> f.analysis.search_queries,
                   results |-> f.linkupResults ],
      scout |-> f.scoutResponse,
      meta |-> [ model |-> self.model,
                 linkupAttempted |-> Len(f.analysis.search_queries) > 0,
                 scoutAttempted |-> f.analysis.should_call_scout ] ]

\* lines 222-240: the result of a turn that did not stop at "collecting"
FinalResult(self, f, assistantMessage) ==
    [ sessionId |-> f.resolvedSessionId,
      stage |-> f.analysis.stage,
      assistantMessage |-> assistantMessage,
      missingInformation |-> f.analysis.missing_information,
      analysis |-> f.analysis,
      parameters |-> f.parameters,
      linkup |-> [ attempted |-> f.analysis.should_call_linkup,
                   queries |-> f.analysis.search_queries,
                   results |-> f.linkupResults ],
      scout |-> f.scoutResponse,
      meta |-> [ model |-> self.model,
                 linkupAttempted |-> f.analysis.should_call_linkup,
                 scoutAttempted |-> f.analysis.should_call_scout ] ]

\* lines 215-240: the composer answered
runAfterCompose(self, f, response) ==
    Return(f, FinalResult(self, f, generateFinalMessageText(response)))

\* line 213: scoutResponse?.parameters ?? {}
ParametersOf(scoutResponse) ==
    IF scoutResponse # Null /\ Has(scoutResponse, "parameters")
    THEN scoutResponse.parameters
    ELSE {}

\* run asking the extraction collaborator once more after an error status
runAfterScoutRetry(self, f, scoutResponse) ==
    IF /\ scoutResponse # Null
       /\ \E m \in scoutResponse.meta : m[1] = "error"
       /\ Len(f.scoutRequests) < 2
    THEN [f EXCEPT !.pc = "awaitScout",
                   !.scoutRequests = Append(@, f.scoutRequests[1])]
    ELSE LET parameters == ParametersOf(scoutResponse)
         IN  generateFinalMessage(
                 [f EXCEPT !.scoutResponse = scoutResponse, !.parameters = parameters],
                 f.linkupResults, parameters)

\* lines 213-220: scoutResponse is known, call the composer
runAfterScout(self, f, scoutResponse) ==
    LET parameters == ParametersOf(scoutResponse)
    IN  generateFinalMessage(
            [f EXCEPT !.scoutResponse = scoutResponse, !.parameters = parameters],
            f.linkupResults, parameters)

\* line 209: promptOverride = analysis.scout_prompt ?? analysis.summary, put
\* into obj as property `field` (an undefined property is no property)
WithPromptOverride(obj, analysis, field) ==
    IF Has(analysis, "scout_prompt") THEN obj @@ (field :> analysis.scout_prompt)
    ELSE IF Has(analysis, "summary") THEN obj @@ (field :> analysis.summary)
    ELSE obj

\* callScoutProcessor sending the analyzer's window of the conversation
callScoutProcessorWindowed(self, f) ==
    [f EXCEPT !.pc = "awaitScout",
              !.scoutRequests = Append(@,
                  WithPromptOverride(
                      [ url |-> self.scoutApiUrl,
                        session_id |-> f.resolvedSessionId,
                        use_full_history |-> f.opts.useFullHistory,
                        messages |-> pruneConversation(f.opts.messages, PRUNE_LIMIT) ],
                      f.analysis, "prompt_override"))]

\* lines 407-418: the request to the extraction collaborator
callScoutProcessor(self, f) ==
    [f EXCEPT !.pc = "awaitScout",
              !.scoutRequests = Append(@,
                  WithPromptOverride(
                      [ url |-> self.scoutApiUrl,
                        session_id |-> f.resolvedSessionId,
                        use_full_history |-> f.opts.useFullHistory,
                        messages |-> f.opts.messages ],
                      f.analysis, "prompt_override"))]

\* callScoutProcessor reporting the error status among the parameters
callScoutProcessorReturnErrorParameter(f, reply) ==
    IF ~reply.ok
    THEN WithPromptOverride(
             [ session_id |-> f.resolvedSessionId,
               parameters |-> {<<"error", "extraction failed">>},
               meta |-> {<<"error", <<"Scout processor returned ", reply.status>>>>} ],
             f.analysis, "prompt")
    ELSE reply.data

\* lines 420-433: what callScoutProcessor returns for an answer that arrived
callScoutProcessorReturn(f, reply) ==
    IF ~reply.ok
    THEN WithPromptOverride(
             [ session_id |-> f.resolvedSessionId,
               parameters |-> {},
               meta |-> {<<"error", <<"Scout processor returned ", reply.status>>>>} ],
             f.analysis, "prompt")
    ELSE reply.data

\* lines 204-211: linkupResults is known, gate the extraction
runAfterLinkup(self, f, linkupResults) ==
    LET g == [f EXCEPT !.linkupResults = linkupResults]
    IN  IF g.analysis.should_call_scout
        THEN callScoutProcessor(self, g)
        ELSE runAfterScout(self, g, Null)

-----------------------------------------------------------------------------
(* callLinkup *)

\* lines 342-349: the outcome synthesised for a query when Linkup is not
\* configured (or the list is empty)
UnconfiguredOutcome(self, query) ==
    [ query |-> query,
      ok |-> FALSE,
      payload |-> buildLinkupPayload(self, query),
      error |-> IF self.linkupApiUrl # ""
                THEN <<"Linkup API key missing">>
                ELSE <<"Linkup API not configured">> ]

\* lines 367-389: the outcome pushed for a query whose fetch was answered
AttemptedOutcome(self, query, reply, took_ms) ==
    LET payload == buildLinkupPayload(self, query)
    IN  IF reply.kind = "reject"
        THEN [ query |-> query, ok |-> FALSE, payload |-> payload,
               error |-> <<reply.message>> ]
        ELSE IF ~reply.ok
        THEN [ query |-> query, ok |-> FALSE, payload |-> payload,
               error |-> <<"Linkup returned ", reply.status, ": ", reply.body>>,
               took_ms |-> took_ms ]
        ELSE IF ~Has(reply.body, "json")
        THEN \* response.json() throws inside the try
             [ query |-> query, ok |-> FALSE, payload |-> payload,
               error |-> <<"Unexpected token in JSON">> ]
        ELSE [ query |-> query, ok |-> TRUE, data |-> reply.body.json,
               took_ms |-> took_ms, payload |-> payload ]

\* lines 354-365 and 393: the head of the for loop; f.results holds one
\* outcome per query already handled
callLinkupLoop(self, clock, f) ==
    LET queries == f.analysis.search_queries
        i == Len(f.results) + 1
    IN  IF i <= Len(queries)
        THEN [f EXCEPT !.pc = "awaitLinkup",
                       !.startedAt = clock,
                       !.linkupRequests = Append(@,
                           [ url |-> self.linkupApiUrl,
                             authorization |->
                                 <<"Bearer ", IF Has(self, "linkupApiKey")
                                              THEN self.linkupApiKey
                                              ELSE "undefined">>,
                             body |-> buildLinkupPayload(self, queries[i]) ])]
        ELSE runAfterLinkup(self, f, f.results)

\* callLinkup returning [] when Linkup is not configured
callLinkupNoSynthesis(self, clock, f) ==
    IF LinkupUnconfigured(self) \/ Len(f.analysis.search_queries) = 0
    THEN runAfterLinkup(self, f, <<>>)
    ELSE callLinkupLoop(self, clock, [f EXCEPT !.results = <<>>])

\* callLinkup sending every request at once and not awaiting the answers
callLinkupDetached(self, clock, f) ==
    LET queries == f.analysis.search_queries
        g == [f EXCEPT !.linkupCalls = @ + 1]
    IN  IF LinkupUnconfigured(self) \/ Len(queries) = 0
        THEN runAfterLinkup(self, g,
                 [i \in 1..Len(queries) |-> UnconfiguredOutcome(self, queries[i])])
        ELSE runAfterLinkup(self,
                 [g EXCEPT !.linkupRequests =
                     [i \in 1..Len(queries) |->
                         [ url |-> self.linkupApiUrl,
                           authorization |-> <<"Bearer ", self.linkupApiKey>>,
                           body |-> buildLinkupPayload(self, queries[i]) ]]],
                 <<>>)

\* lines 340-352
callLinkup(self, clock, f) ==
    LET queries == f.analysis.search_queries
        g == [f EXCEPT !.linkupCalls = @ + 1]
    IN  IF LinkupUnconfigured(self) \/ Len(queries) = 0
        THEN runAfterLinkup(self, g,
                 [i \in 1..Len(queries) |-> UnconfiguredOutcome(self, queries[i])])
        ELSE callLinkupLoop(self, clock, [g EXCEPT !.results = <<>>])

\* callLinkup with the try/catch around the loop: a rejected fetch ends it
callLinkupAnsweredAbort(self, clock, f, reply) ==
    LET query == f.analysis.search_queries[Len(f.results) + 1]
        g == [f EXCEPT !.results = Append(@,
                           AttemptedOutcome(self, query, reply, clock - f.startedAt)),
                       !.linkupAnswers = Append(@, reply)]
    IN  IF reply.kind = "reject"
        THEN runAfterLinkup(self, g, g.results)
        ELSE callLinkupLoop(self, clock, g)

\* callLinkup with results.unshift in place of results.push
callLinkupAnsweredUnshift(self, clock, f, reply) ==
    LET query == f.analysis.search_queries[Len(f.results) + 1]
    IN  callLinkupLoop(self, clock,
            [f EXCEPT !.results = <<AttemptedOutcome(self, query, reply,
                                                     clock - f.startedAt)>> \o @,
                      !.linkupAnswers = Append(@, reply)])

\* lines 367-391: the pending fetch was answered; push and go round the loop
callLinkupAnswered(self, clock, f, reply) ==
    LET query == f.analysis.search_queries[Len(f.results) + 1]
    IN  callLinkupLoop(self, clock,
            [f EXCEPT !.results = Append(@,
                          AttemptedOutcome(self, query, reply, clock - f.startedAt)),
                      !.linkupAnswers = Append(@, reply)])

-----------------------------------------------------------------------------
(* run, the top *)

\* lines 178-197: the result of a turn that stops at "collecting"
CollectingResult(self, f, analysis) ==
    [ sessionId |-> f.resolvedSessionId,
      stage |-> analysis.stage,
      assistantMessage |-> IF Has(analysis, "follow_up_question")
                           THEN analysis.follow_up_question
                           ELSE COLLECTING_FALLBACK,
      missingInformation |-> analysis.missing_information,
      analysis |-> analysis,
      parameters |-> {},
      linkup |-> [ attempted |-> FALSE,
                   queries |-> analysis.search_queries,
                   results |-> <<>> ],
      scout |-> Null,
      meta |-> [ reason |-> "information_gathering", model |-> self.model ] ]

\* lines 302-304: what analyzeConversation returns for an answer that arrived
analyzeConversationReturn(response) ==
    safeJsonParse(IF Has(response, "output_text") THEN response.output_text ELSE EmptyString)

\* run without the early return of the collecting stage
runAfterAnalysisNoShortCircuit(self, clock, f, analysis) ==
    LET g == [f EXCEPT !.analysis = analysis]
    IN  IF ~Truthy(analysis)
        THEN Throw(g, ANALYSIS_FAILED)
        ELSE IF analysis.should_call_linkup
        THEN callLinkup(self, clock, g)
        ELSE runAfterLinkup(self, g, <<>>)

\* run gating the search on a non-empty query list instead of the flag
runAfterAnalysisListGate(self, clock, f, analysis) ==
    LET g == [f EXCEPT !.analysis = analysis]
    IN  IF ~Truthy(analysis)
        THEN Throw(g, ANALYSIS_FAILED)
        ELSE IF analysis.stage = "collecting"
        THEN Return(g, CollectingResult(self, g, analysis))
        ELSE IF Len(analysis.search_queries) > 0
        THEN callLinkup(self, clock, g)
        ELSE runAfterLinkup(self, g, <<>>)

\* run returning early at the collecting stage only when both flags are false
runAfterAnalysisFlagsFirst(self, clock, f, analysis) ==
    LET g == [f EXCEPT !.analysis = analysis]
    IN  IF ~Truthy(analysis)
        THEN Throw(g, ANALYSIS_FAILED)
        ELSE IF /\ analysis.stage = "collecting"
                /\ ~analysis.should_call_linkup /\ ~analysis.should_call_scout
        THEN Return(g, CollectingResult(self, g, analysis))
        ELSE IF analysis.should_call_linkup
        THEN callLinkup(self, clock, g)
        ELSE runAfterLinkup(self, g, <<>>)

\* lines 173-202: the analysis is known
runAfterAnalysis(self, clock, f, analysis) ==
    LET g == [f EXCEPT !.analysis = analysis]
    IN  IF ~Truthy(analysis)
        THEN Throw(g, ANALYSIS_FAILED)
        ELSE IF analysis.stage = "collecting"
        THEN Return(g, CollectingResult(self, g, analysis))
        ELSE IF analysis.should_call_linkup
        THEN callLinkup(self, clock, g)
        ELSE runAfterLinkup(self, g, <<>>)

\* run generating a session id even when the caller supplied one
runCalledFreshId(self, clock, f, opts) ==
    [f EXCEPT !.pc = "awaitAnalysis",
              !.opts = opts,
              !.resolvedSessionId = <<"session-", clock>>,
              !.analyzerRequests = Append(@,
                  [conversation |-> pruneConversation(opts.messages, PRUNE_LIMIT)])]

\* lines 168-171 and 243-300: run is called and suspends at the analyzer
runCalled(self, clock, f, opts) ==
    [f EXCEPT !.pc = "awaitAnalysis",
              !.opts = opts,
              !.resolvedSessionId = IF Has(opts, "sessionId")
                                    THEN opts.sessionId
                                    ELSE <<"session-", clock>>,
              !.analyzerRequests = Append(@,
                  [conversation |-> pruneConversation(opts.messages, PRUNE_LIMIT)])]

-----------------------------------------------------------------------------
(* The state machine *)

\* the frame of POST before it is called; pc: "idle", "awaitSearch",
\* "awaitUser", "awaitSearchRun", "awaitRecommendations" (suspended at that
\* await), "done" (answered)
IdlePost ==
    [ pc |-> "idle",
      body |-> Null,                \* the parsed request body
      searchParams |-> Null,
      enhancedQuery |-> <<>>,
      linkupResult |-> Null,        \* `let linkupResult`, undefined until assigned
      linkupResultAssigned |-> FALSE,
      searchRejected |-> FALSE,     \* the inner catch ran
      recommendations |-> <<>>,
      user |-> Null,
      searchRequests |-> <<>>,      \* calls of linkupClient.search
      inserts |-> <<>>,             \* insert requests sent to the database
      response |-> Null ]           \* the NextResponse POST resolved with

EmptyDb == [search_runs |-> <<>>, recommendations |-> <<>>]

\* no call of POST /api/scout-process is in progress
RouteIdle ==
    /\ linkupClient = Null
    /\ supabaseEnv = FALSE
    /\ post = IdlePost
    /\ db = EmptyDb

Init ==
    /\ orchestratorInstance \in {Constructor(c) : c \in OrchestratorConfigs}
    /\ now = 0
    /\ turn = [t \in Turns |-> IdleFrame]
    /\ RouteIdle

\* run keeping the search outcomes in a field of the instance, which every
\* call of run in progress then sees
FrameShared(t, f) ==
    /\ turn' = [u \in Turns |->
                    IF u = t THEN f
                    ELSE IF turn[u].pc = "awaitLinkup"
                    THEN [turn[u] EXCEPT !.results = f.linkupResults]
                    ELSE turn[u]]
    /\ UNCHANGED <<orchestratorInstance, now>>
    /\ UNCHANGED routeVars

Frame(t, f) ==
    /\ turn' = [turn EXCEPT ![t] = f]
    /\ UNCHANGED <<orchestratorInstance, now>>
    /\ UNCHANGED routeVars

\* a caller invokes run with one of `options`
RunWith(t, options) ==
    /\ turn[t].pc = "idle"
    /\ \E opts \in options :
         Frame(t, runCalled(orchestratorInstance, now, turn[t], opts))

Run(t) == RunWith(t, RunOptionsSet)

\* client.responses.create of analyzeConversation resolves with one of `responses`
AnalyzerRespondsWith(t, responses) ==
    /\ turn[t].pc = "awaitAnalysis"
    /\ \E response \in responses :
         Frame(t, runAfterAnalysis(orchestratorInstance, now,
                      [turn[t] EXCEPT !.analyzerAnswers = Append(@, response)],
                      analyzeConversationReturn(response)))

AnalyzerResponds(t) == AnalyzerRespondsWith(t, AnalyzerResponses)

\* client.responses.create of analyzeConversation rejects
AnalyzerThrows(t) ==
    /\ turn[t].pc = "awaitAnalysis"
    /\ Frame(t, Throw(turn[t], "analyzer request failed"))

\* the pending fetch of callLinkup settles with one of `replies`
LinkupAnswersWith(t, replies) ==
    /\ turn[t].pc = "awaitLinkup"
    /\ ~turn[t].hung
    /\ \E reply \in replies :
         Frame(t, callLinkupAnswered(orchestratorInstance, now, turn[t], reply))

LinkupAnswers(t) == LinkupAnswersWith(t, LinkupReplies)

\* fetch of callScoutProcessor resolves with one of `replies`
ScoutAnswersWith(t, replies) ==
    /\ turn[t].pc = "awaitScout"
    /\ ~turn[t].hung
    /\ \E reply \in replies :
         Frame(t, runAfterScout(orchestratorInstance,
                      [turn[t] EXCEPT !.scoutAnswers = Append(@, reply)],
                      callScoutProcessorReturn(turn[t], reply)))

ScoutAnswers(t) == ScoutAnswersWith(t, ScoutReplies)

\* fetch of callScoutProcessor rejects, or response.json() does: nothing in
\* callScoutProcessor or run catches it
ScoutThrows(t) ==
    /\ turn[t].pc = "awaitScout"
    /\ ~turn[t].hung
    /\ \E message \in {"fetch failed", "Unexpected token in JSON"} :
         Frame(t, Throw(turn[t], message))

\* client.responses.create of generateFinalMessage resolves with one of `responses`
ComposerRespondsWith(t, responses) ==
    /\ turn[t].pc = "awaitCompose"
    /\ \E response \in responses :
         Frame(t, runAfterCompose(orchestratorInstance,
                      [turn[t] EXCEPT !.composerAnswers = Append(@, response)],
                      response))

ComposerResponds(t) == ComposerRespondsWith(t, ComposerResponses)

\* client.responses.create of generateFinalMessage rejects: nothing catches it
ComposerThrows(t) ==
    /\ turn[t].pc = "awaitCompose"
    /\ Frame(t, Throw(turn[t], "composer request failed"))

Step(t) ==
    \/ Run(t)
    \/ AnalyzerResponds(t)
    \/ AnalyzerThrows(t)
    \/ LinkupAnswers(t)
    \/ ScoutAnswers(t)
    \/ ScoutThrows(t)
    \/ ComposerResponds(t)
    \/ ComposerThrows(t)

Next == \E t \in SoloTurns : Step(t)

Spec == Init /\ [][Next]_vars

-----------------------------------------------------------------------------
(* Several calls of run on the one instance getOrchestrator hands out *)

\* requests this call of run has sent, to any collaborator
RequestsSent(f) ==
    Len(f.analyzerRequests) + Len(f.linkupRequests)
        + Len(f.scoutRequests) + Len(f.composerRequests)

Suspended(f) ==
    f.pc \in {"awaitAnalysis", "awaitLinkup", "awaitScout", "awaitCompose"}

ConcDirectives ==
    { [ stage |-> "collecting", summary |-> "dinner in Paris",
        missing_information |-> <<"dates", "budget">>,
        follow_up_question |-> FollowUpQuestion, search_queries |-> <<>>,
        should_call_linkup |-> FALSE, should_call_scout |-> FALSE ],
      [ stage |-> "finalizing", summary |-> "dinner in Paris",
        missing_information |-> <<"dates", "budget">>,
        search_queries |-> <<"romantic restaurants paris">>,
        should_call_linkup |-> TRUE, should_call_scout |-> TRUE ] }

ConcAnalyzerResponses ==
    {[id |-> "resp", output_text |-> MalformedText]}
    \cup {[id |-> "resp", output_text |-> JsonText(d)] : d \in ConcDirectives}

ConcLinkupReplies ==
    {r \in LinkupReplies : r.kind = "reject" \/ (r.ok /\ Has(r.body, "json"))}

ConcScoutReplies ==
    {r \in ScoutReplies : ~r.ok \/ (Has(r.data, "parameters") /\ r.data.parameters # {})}

ConcComposerResponses == {[id |-> "resp", output_text |-> <<"Sure.">>]}

InitConc ==
    /\ orchestratorInstance =
           Constructor([openaiApiKey |-> "sk-openai", linkupApiKey |-> "linkup-key",
                        scoutApiUrl |-> "https://scout/process"])
    /\ now = 0
    /\ turn = [t \in Turns |-> IdleFrame]
    /\ RouteIdle

\* time passes
Tick ==
    /\ now < MaxClock
    /\ now' = now + 1
    /\ UNCHANGED <<orchestratorInstance, turn>>
    /\ UNCHANGED routeVars

\* the collaborator behind the pending fetch goes silent: fetch is called
\* without a signal or a timeout (lines 358-365, 407-418), so the await never
\* settles
CollaboratorHangs(t) ==
    /\ turn[t].pc \in {"awaitLinkup", "awaitScout"}
    /\ ~turn[t].hung
    /\ Frame(t, [turn[t] EXCEPT !.hung = TRUE])

\* the caller abandons a call of run that is suspended: RunOptions carries no
\* signal, so nothing in run observes it
Cancel(t) ==
    /\ Suspended(turn[t])
    /\ ~turn[t].cancelled
    /\ Frame(t, [turn[t] EXCEPT !.cancelled = TRUE,
                               !.sentAtCancel = RequestsSent(turn[t])])

\* the steps that resume a suspended call of run: the pending await settles
Resume(t) ==
    \/ AnalyzerRespondsWith(t, ConcAnalyzerResponses)
    \/ AnalyzerThrows(t)
    \/ LinkupAnswersWith(t, ConcLinkupReplies)
    \/ ScoutAnswersWith(t, ConcScoutReplies)
    \/ ScoutThrows(t)
    \/ ComposerRespondsWith(t, ConcComposerResponses)
    \/ ComposerThrows(t)

ConcRunOptions == {opts \in RunOptionsSet : opts.useFullHistory}

ConcStep(t) ==
    \/ RunWith(t, ConcRunOptions)
    \/ Resume(t)
    \/ CollaboratorHangs(t)
    \/ Cancel(t)

NextConc == Tick \/ \E t \in Turns : ConcStep(t)

SpecConc == InitConc /\ [][NextConc]_vars

-----------------------------------------------------------------------------
(* Calls of run over conversations of every length *)

WindowHistories ==
    UNION {[1..n -> {ChatMessage(1), ChatMessage(2)}] : n \in 0..MaxHistory}

WindowOptions == {[messages |-> h, useFullHistory |-> FALSE] : h \in WindowHistories}

NextWindow == \E t \in SoloTurns : RunWith(t, WindowOptions) \/ AnalyzerThrows(t)

SpecWindow == InitConc /\ [][NextWindow]_vars

-----------------------------------------------------------------------------
(* app/api/scout-process/route.ts: the pure helpers                        *)
(*                                                                         *)
(* A text is a sequence of words; String.prototype.includes is matched on  *)
(* whole words. A property of searchParams that holds null is an absent    *)
(* field: the code tests these properties for truthiness only.             *)

\* String.prototype.toLowerCase, on the capitalised words the inputs use
ToLowerCaseWord(word) ==
    CASE word = "Vegan" -> "vegan"
      [] word = "Paris" -> "paris"
      [] word = "Septime" -> "septime"
      [] OTHER -> word

ToLowerCase(text) == [i \in DOMAIN text |-> ToLowerCaseWord(text[i])]

\* text.includes(keyword), both sequences of words
Includes(text, keyword) ==
    \E i \in 1..Len(text) :
        /\ i + Len(keyword) <= Len(text) + 1
        /\ SubSeq(text, i, i + Len(keyword) - 1) = keyword

\* obj with the property `field` set to `value` when `present`
WithField(obj, field, present, value) ==
    IF present THEN obj @@ (field :> value) ELSE obj

\* lines 41-63, in insertion order
venueTypeMapping ==
    << <<<<"cafe">>, "cafe">>, <<<<"coffee">>, "cafe">>,
       <<<<"restaurant">>, "restaurant">>, <<<<"dining">>, "restaurant">>,
       <<<<"bar">>, "bar">>, <<<<"pub">>, "bar">>, <<<<"club">>, "club">>,
       <<<<"museum">>, "museum">>, <<<<"gallery">>, "museum">>,
       <<<<"park">>, "outdoors">>, <<<<"hiking">>, "outdoors">>,
       <<<<"tour">>, "tour">>, <<<<"shopping">>, "shopping">>,
       <<<<"mall">>, "shopping">>, <<<<"spa">>, "spa">>, <<<<"wellness">>, "spa">>,
       <<<<"hotel">>, "accommodation">>, <<<<"motel">>, "accommodation">>,
       <<<<"gas", "station">>, "service">>, <<<<"rest", "stop">>, "service">>,
       <<<<"bathroom">>, "service">> >>

\* lines 73-81
dietaryKeywords ==
    << <<"vegan", {<<"vegan">>, <<"plant-based">>}>>,
       <<"vegetarian", {<<"vegetarian">>, <<"veggie">>}>>,
       <<"gluten-free", {<<"gluten-free">>, <<"gluten", "free">>, <<"celiac">>}>>,
       <<"keto", {<<"keto">>, <<"ketogenic">>}>>,
       <<"halal", {<<"halal">>}>>,
       <<"kosher", {<<"kosher">>}>>,
       <<"dairy-free", {<<"dairy-free">>, <<"dairy", "free">>, <<"lactose-free">>}>> >>

\* lines 101-110
vibePatterns ==
    << <<"romantic", {<<"romantic">>, <<"date">>, <<"intimate">>, <<"cozy">>}>>,
       <<"casual", {<<"casual">>, <<"relaxed">>, <<"informal">>, <<"laid-back">>}>>,
       <<"business", {<<"business">>, <<"professional">>, <<"formal">>}>>,
       <<"family", {<<"family">>, <<"kid", "friendly">>, <<"children">>}>>,
       <<"nightlife", {<<"nightlife">>, <<"party">>, <<"club">>, <<"dancing">>}>>,
       <<"chill", {<<"chill">>, <<"quiet">>, <<"peaceful">>}>>,
       <<"adventurous", {<<"adventurous">>, <<"exciting">>, <<"unique">>}>>,
       <<"foodie", {<<"foodie">>, <<"culinary">>, <<"gourmet">>}>> >>

\* the least element of a non-empty set of numbers
Least(S) == CHOOSE i \in S : \A j \in S : i <= j

\* the capitalised words the pattern of line 120 can match after "in"
CapitalisedWords == {"Paris"}

\* lines 20-126
extractSearchParameters(query) ==
    LET queryLower == ToLowerCase(query)
        anyOf(keywords) == \E k \in keywords : Includes(queryLower, k)
        venues == {i \in DOMAIN venueTypeMapping :
                      Includes(queryLower, venueTypeMapping[i][1])}
        diets == SelectSeq(dietaryKeywords, LAMBDA e : anyOf(e[2]))
        vibes == {i \in DOMAIN vibePatterns : anyOf(vibePatterns[i][2])}
        price ==
            IF anyOf({<<"cheap">>, <<"budget">>, <<"low", "cost">>}) THEN <<"$">>
            ELSE IF anyOf({<<"moderate">>, <<"mid-range">>}) THEN <<"$$">>
            ELSE IF anyOf({<<"expensive">>, <<"upscale">>, <<"fine", "dining">>})
            THEN <<"$$$">>
            ELSE IF anyOf({<<"luxury">>, <<"premium">>}) THEN <<"$$$$">>
            ELSE <<>>
        places == {i \in 1..Len(query) :
                      /\ i > 1 /\ query[i - 1] = "in"
                      /\ query[i] \in CapitalisedWords}
        p0 == [ dietary_restrictions |-> [i \in DOMAIN diets |-> diets[i][1]],
                amenities |-> <<>>,
                accessibility_needs |-> <<>> ]
        p1 == WithField(p0, "category", venues # {},
                        IF venues # {} THEN venueTypeMapping[Least(venues)][2] ELSE "")
        p2 == WithField(p1, "price_range", price # <<>>,
                        IF price # <<>> THEN price[1] ELSE "")
        p3 == WithField(p2, "vibe", vibes # {},
                        IF vibes # {} THEN vibePatterns[Least(vibes)][1] ELSE "")
    IN  WithField(p3, "destination", places # {},
                  IF places # {} THEN query[Least(places)] ELSE "")

\* recommendations.sort((a, b) => b.score - a.score): stable, descending
RECURSIVE SortByScore(_)
SortByScore(items) ==
    IF items = <<>>
    THEN <<>>
    ELSE LET sorted == SortByScore(SubSeq(items, 1, Len(items) - 1))
             x == items[Len(items)]
             k == Cardinality({i \in DOMAIN sorted : sorted[i].score >= x.score})
         IN  SubSeq(sorted, 1, k) \o <<x>> \o SubSeq(sorted, k + 1, Len(sorted))

\* slice(0, n)
Slice(items, n) == IF Len(items) <= n THEN items ELSE SubSeq(items, 1, n)

MOCK_LIMIT == 5
LINKUP_LIMIT == 10

\* lines 408-537: name, score, price and tags of the mock data (every item
\* has category 'restaurant')
mockData ==
    << [name |-> "Le Bernardin", score |-> 95, price |-> "$$$$",
        tags |-> {"romantic", "fine-dining", "french", "seafood", "michelin-starred"}],
       [name |-> "One if by Land, Two if by Sea", score |-> 92, price |-> "$$$$",
        tags |-> {"romantic", "intimate", "historic", "american", "date-night"}],
       [name |-> "Gramercy Tavern", score |-> 90, price |-> "$$$",
        tags |-> {"romantic", "american", "seasonal", "upscale", "cozy"}],
       [name |-> "Joe's Pizza", score |-> 85, price |-> "$",
        tags |-> {"budget", "casual", "quick-bite"}],
       [name |-> "Mamoun's Falafel", score |-> 82, price |-> "$",
        tags |-> {"budget", "vegetarian", "vegan-options", "romantic", "intimate"}],
       [name |-> "Xi'an Famous Foods", score |-> 80, price |-> "$",
        tags |-> {"budget", "authentic", "spicy"}],
       [name |-> "The Halal Guys", score |-> 78, price |-> "$",
        tags |-> {"budget", "halal", "quick-bite"}],
       [name |-> "Vanessa's Dumpling House", score |-> 77, price |-> "$",
        tags |-> {"budget", "dumplings", "authentic"}] >>

\* `${diet}-options`
DietOptions(diet) ==
    CASE diet = "vegan" -> "vegan-options"
      [] diet = "vegetarian" -> "vegetarian-options"
      [] OTHER -> "other-options"

\* lines 406-585
getMockRecommendations(searchParams, clock) ==
    LET all == [i \in DOMAIN mockData |->
                   mockData[i] @@
                       [ id |-> <<"mock-", clock, i>>,
                         category |-> "restaurant",
                         reasons |-> [ extracted_params |-> searchParams,
                                       source |-> "mock" ] ]]
        byPrice == IF Has(searchParams, "price_range")
                   THEN SelectSeq(all, LAMBDA item : item.price = searchParams.price_range)
                   ELSE all
        diets == searchParams.dietary_restrictions
        byDiet == IF Len(diets) > 0
                  THEN SelectSeq(byPrice, LAMBDA item :
                           \E d \in DOMAIN diets :
                               diets[d] \in item.tags \/ DietOptions(diets[d]) \in item.tags)
                  ELSE byPrice
        hasVibe(item) == Has(searchParams, "vibe") /\ searchParams.vibe \in item.tags
        byVibe == SelectSeq(byDiet, LAMBDA item : hasVibe(item))
                      \o SelectSeq(byDiet, LAMBDA item : ~hasVibe(item))
        bonus(item) ==
            (IF hasVibe(item) THEN 15 ELSE 0)
            + (IF Has(searchParams, "category") /\ item.category = searchParams.category
               THEN 3 ELSE 0)
        scored == [i \in DOMAIN byVibe |->
                      [byVibe[i] EXCEPT !.score = @ + bonus(byVibe[i])]]
    IN  Slice(SortByScore(scored), MOCK_LIMIT)

\* lines 290-304 and 314-328: a recommendation opened by an entry line
\* (address, description and amenities are written but never read)
NewRecommendation(name, searchParams, clock, recIndex) ==
    [ id |-> <<"linkup-", clock, recIndex>>,
      name |-> name,
      category |-> IF Has(searchParams, "category")
                   THEN searchParams.category ELSE "restaurant",
      score |-> 80,
      reasons |-> [extracted_params |-> searchParams, source |-> "linkup"],
      price |-> IF Has(searchParams, "price_range")
                THEN searchParams.price_range ELSE "$$",
      tags |-> <<>> ]

\* lines 283-366: the body of the loop for one line of the answer. A line is
\* what the patterns of the loop see of it: its kind ("dash" for /^-\s+name/,
\* "numbered" for /^\d+\./, else "text"), the name the entry pattern captures
\* (absent when it does not match), the price the price pattern matches
\* (absent when it does not), and the lower-cased words of the line.
parseLine(st, line, searchParams, clock) ==
    LET named == st.currentRec # Null /\ st.currentRec.name # <<>>
        pushed == IF line.kind \in {"dash", "numbered"} /\ named
                  THEN Append(st.recommendations, st.currentRec)
                  ELSE st.recommendations
        opens == line.kind \in {"dash", "numbered"} /\ Has(line, "name")
        rec0 == IF opens
                THEN NewRecommendation(line.name, searchParams, clock, st.recIndex)
                ELSE st.currentRec
        rec1 == IF rec0 # Null /\ Has(line, "price")
                THEN [rec0 EXCEPT !.price = line.price]
                ELSE rec0
        diets == searchParams.dietary_restrictions
        mentioned == SelectSeq(diets, LAMBDA diet : diet \in line.words)
        rec2 == IF rec1 # Null
                THEN [rec1 EXCEPT !.tags = @ \o mentioned]
                ELSE rec1
        vibe == IF Has(searchParams, "vibe") THEN searchParams.vibe ELSE "null"
        score == 70
                 + (IF rec2 # Null /\ Len(rec2.tags) > 0 THEN 10 ELSE 0)
                 + (IF /\ rec2 # Null /\ Has(searchParams, "price_range")
                       /\ rec2.price = searchParams.price_range
                    THEN 10 ELSE 0)
                 + (IF vibe \in line.words THEN 10 ELSE 0)
        rec3 == IF rec2 # Null
                THEN [rec2 EXCEPT !.score = IF score < 100 THEN score ELSE 100]
                ELSE rec2
    IN  [ recommendations |-> pushed,
          currentRec |-> rec3,
          recIndex |-> IF opens THEN st.recIndex + 1 ELSE st.recIndex ]

RECURSIVE parseLines(_, _, _, _)
parseLines(st, lines, searchParams, clock) ==
    IF lines = <<>>
    THEN st
    ELSE parseLines(parseLine(st, lines[1], searchParams, clock),
                    SubSeq(lines, 2, Len(lines)), searchParams, clock)

\* lines 375-397: the sources whose title no recommendation has as its name
RECURSIVE parseSources(_, _, _, _)
parseSources(recommendations, sources, searchParams, clock) ==
    IF sources = <<>>
    THEN recommendations
    ELSE LET source == sources[1]
             fresh == /\ Has(source, "title") /\ source.title # <<>>
                      /\ ~\E i \in DOMAIN recommendations :
                             recommendations[i].name = source.title
             added ==
                 [ id |-> <<"linkup-source-", clock, Len(recommendations)>>,
                   name |-> IF Has(source, "title") THEN source.title ELSE <<>>,
                   category |-> IF Has(searchParams, "category")
                                THEN searchParams.category ELSE "restaurant",
                   score |-> 60,
                   reasons |-> [ extracted_params |-> searchParams,
                                 source |-> "linkup", url |-> source.url ],
                   price |-> IF Has(searchParams, "price_range")
                             THEN searchParams.price_range ELSE "$$",
                   tags |-> <<>>,
                   url |-> source.url ]
         IN  parseSources(IF fresh THEN Append(recommendations, added)
                          ELSE recommendations,
                          SubSeq(sources, 2, Len(sources)), searchParams, clock)

\* linkupResult.answer of a result that is null or undefined throws
parseThrows(linkupResult) == linkupResult = Null

\* lines 273-403
parseRecommendationsFromLinkup(linkupResult, searchParams, clock) ==
    LET st == IF Has(linkupResult, "answer") /\ linkupResult.answer # <<>>
              THEN parseLines([recommendations |-> <<>>, currentRec |-> Null,
                               recIndex |-> 0],
                              linkupResult.answer, searchParams, clock)
              ELSE [recommendations |-> <<>>, currentRec |-> Null, recIndex |-> 0]
        fromAnswer == IF st.currentRec # Null
                      THEN Append(st.recommendations, st.currentRec)
                      ELSE st.recommendations
        all == IF Has(linkupResult, "sources")
               THEN parseSources(fromAnswer, linkupResult.sources, searchParams, clock)
               ELSE fromAnswer
    IN  Slice(SortByScore(all), LINKUP_LIMIT)

-----------------------------------------------------------------------------
(* app/api/scout-process/route.ts: POST *)

MaxEntries == 11            \* entries in the longest answer Linkup returns

\* request bodies: query absent, empty, or a query; sessionId absent, empty
\* or an id
RouteQueries ==
    { <<"romantic", "restaurant">>, <<"low", "budget", "restaurant">>,
      <<"Vegan", "cafe", "in", "Paris">>, <<"quiet", "luxury", "spa">>,
      <<"things", "to", "do">> }

RequestBodies ==
    LET withQuery == {[x \in {} |-> x]} \cup {[query |-> q] : q \in RouteQueries \cup {<<>>}}
    IN  UNION {{b, b @@ [sessionId |-> ""], b @@ [sessionId |-> "sess-1"]} :
                  b \in withQuery}

\* what linkupClient.search resolves with
SearchResults ==
    { Null,
      [requestId |-> "r0"],
      [ answer |-> << [kind |-> "text", words |-> {"here", "are", "some"}],
                      [kind |-> "dash", name |-> <<"Septime">>, price |-> "$",
                       words |-> {"septime", "vegan", "menu"}],
                      [kind |-> "text", words |-> {"romantic", "vegan", "quiet"}],
                      [kind |-> "numbered", name |-> <<"Clown", "Bar">>,
                       words |-> {"clown", "bar"}],
                      [kind |-> "numbered", words |-> {"open", "late"}] >>,
        sources |-> << [title |-> <<"Septime">>, url |-> "https://septime"],
                       [title |-> <<"Paris", "guide">>, url |-> "https://guide"],
                       [url |-> "https://untitled"] >> ],
      [ answer |-> [i \in 1..MaxEntries |->
                       [kind |-> "numbered", name |-> <<"Place", i>>,
                        words |-> IF i % 2 = 0 THEN {"romantic"} ELSE {"plain"}]] ] }

Users == {Null, [id |-> "user-1"]}

Respond(p, status, body) ==
    [p EXCEPT !.pc = "done", !.response = [status |-> status, body |-> body]]

\* lines 259-269: the outer catch
FailedResponse(p, message) ==
    Respond(p, 500, [error |-> "Failed to process Scout request", details |-> message])

\* lines 253-258: linkupResponse is undefined when linkupResult was never assigned
FinalResponse(p) ==
    Respond(p, 200,
            WithField([ query |-> p.body.query,
                        searchParams |-> p.searchParams,
                        recommendations |-> p.recommendations ],
                      "linkupResponse", p.linkupResultAssigned, p.linkupResult))

\* lines 238-250: the search_runs insert was answered
postAfterSearchRun(p, answer) ==
    IF answer.ok
    THEN [p EXCEPT !.pc = "awaitRecommendations",
                   !.inserts = Append(@,
                       [ table |-> "recommendations",
                         rows |-> [i \in DOMAIN p.recommendations |->
                                      [ search_run_id |-> answer.id,
                                        session_id |-> p.body.sessionId,
                                        user_id |-> p.user.id,
                                        place_id |-> p.recommendations[i].id,
                                        match_score |-> p.recommendations[i].score,
                                        reasons |-> p.recommendations[i].reasons ]] ])]
    ELSE FinalResponse(p)

\* POST testing sessionId !== undefined in place of its truthiness
postAfterUserDefinedSession(p, user) ==
    IF user # Null /\ Has(p.body, "sessionId")
    THEN [p EXCEPT !.pc = "awaitSearchRun",
                   !.user = user,
                   !.inserts = Append(@,
                       [ table |-> "search_runs",
                         rows |-> << [ session_id |-> p.body.sessionId,
                                       user_id |-> user.id,
                                       inputs |-> [ query |-> p.body.query,
                                                    extracted_params |-> p.searchParams,
                                                    enhanced_query |-> p.enhancedQuery ],
                                       results_count |-> Len(p.recommendations) ] >> ])]
    ELSE FinalResponse([p EXCEPT !.user = user])

\* lines 218-237: supabase.auth.getUser() resolved
postAfterUser(p, user) ==
    IF user # Null /\ Has(p.body, "sessionId") /\ p.body.sessionId # ""
    THEN [p EXCEPT !.pc = "awaitSearchRun",
                   !.user = user,
                   !.inserts = Append(@,
                       [ table |-> "search_runs",
                         rows |-> << [ session_id |-> p.body.sessionId,
                                       user_id |-> user.id,
                                       inputs |-> [ query |-> p.body.query,
                                                    extracted_params |-> p.searchParams,
                                                    enhanced_query |-> p.enhancedQuery ],
                                       results_count |-> Len(p.recommendations) ] >> ])]
    ELSE FinalResponse([p EXCEPT !.user = user])

\* lines 190-218: the recommendations are known
postAfterRecommendations(p, configured) ==
    IF ~configured
    THEN Respond(p, 200,
                 WithField([ query |-> p.body.query,
                             searchParams |-> p.searchParams,
                             recommendations |-> p.recommendations,
                             warning |-> "Supabase not configured - results not saved" ],
                           "linkupResponse", p.linkupResultAssigned, p.linkupResult))
    ELSE [p EXCEPT !.pc = "awaitUser"]

\* POST without the try/catch around the search
postSearchRejectedUncaught(p, configured, clock) ==
    FailedResponse([p EXCEPT !.searchRejected = TRUE], "Linkup API error")

\* lines 184-188: linkupClient.search rejected
postSearchRejected(p, configured, clock) ==
    postAfterRecommendations(
        [p EXCEPT !.searchRejected = TRUE,
                  !.recommendations = getMockRecommendations(p.searchParams, clock)],
        configured)

\* lines 176-188: linkupClient.search resolved
postSearchResolved(p, configured, clock, linkupResult) ==
    LET q == [p EXCEPT !.linkupResult = linkupResult, !.linkupResultAssigned = TRUE]
    IN  postAfterRecommendations(
            [q EXCEPT !.recommendations =
                IF parseThrows(linkupResult)
                THEN getMockRecommendations(p.searchParams, clock)
                ELSE parseRecommendationsFromLinkup(linkupResult, p.searchParams, clock)],
            configured)

\* lines 156-169
EnhancedQuery(query, searchParams) ==
    LET q0 == IF Has(searchParams, "destination")
              THEN << IF Has(searchParams, "category")
                      THEN searchParams.category ELSE "places",
                      "in", searchParams.destination >>
              ELSE query
        diets == searchParams.dietary_restrictions
        q1 == IF Len(diets) > 0
              THEN q0 \o <<"with">>
                      \o [i \in 1..(2 * Len(diets) - 1) |->
                             IF i % 2 = 1 THEN diets[(i + 1) \div 2] ELSE "and"]
                      \o <<"options">>
              ELSE q0
        q2 == IF Has(searchParams, "price_range")
              THEN q1 \o <<"price", "range", searchParams.price_range>>
              ELSE q1
    IN  IF Has(searchParams, "vibe")
        THEN q2 \o <<searchParams.vibe, "atmosphere">>
        ELSE q2

\* lines 131-181: the body was read
postCalled(client, p, body, clock) ==
    LET q == [p EXCEPT !.body = body]
    IN  IF ~Has(body, "query") \/ body.query = <<>>
        THEN Respond(q, 400, [error |-> "Query is required"])
        ELSE LET searchParams == extractSearchParameters(body.query)
             IN  IF client = Null
                 THEN Respond(q, 200,
                          [ query |-> body.query,
                            searchParams |-> searchParams,
                            recommendations |->
                                getMockRecommendations(searchParams, clock),
                            linkupResponse |-> Null ])
                 ELSE [q EXCEPT !.pc = "awaitSearch",
                                !.searchParams = searchParams,
                                !.enhancedQuery =
                                    EnhancedQuery(body.query, searchParams),
                                !.searchRequests = Append(@,
                                    [ query |-> EnhancedQuery(body.query, searchParams),
                                      depth |-> "deep",
                                      outputType |-> "sourcedAnswer" ])]

\* lines 8-17 and 194: LINKUP_API_KEY set or not, the Supabase variables set or not
InitRoute ==
    /\ orchestratorInstance =
           Constructor([openaiApiKey |-> "sk-openai", scoutApiUrl |-> "https://scout/process"])
    /\ now = 0
    /\ turn = [t \in Turns |-> IdleFrame]
    /\ linkupClient \in {Null, [apiKey |-> "linkup-key"]}
    /\ supabaseEnv \in BOOLEAN
    /\ post = IdlePost
    /\ db = EmptyDb

Post(p) ==
    /\ post' = p
    /\ UNCHANGED <<orchestratorInstance, now, turn, linkupClient, supabaseEnv, db>>

\* POST is called and req.json() resolves
PostCalled ==
    /\ post.pc = "idle"
    /\ \E body \in RequestBodies : Post(postCalled(linkupClient, post, body, now))

\* req.json() rejects: the body is not JSON
PostBodyUnreadable ==
    /\ post.pc = "idle"
    /\ Post(FailedResponse(post, "Unexpected end of JSON input"))

SearchResolves ==
    /\ post.pc = "awaitSearch"
    /\ \E linkupResult \in SearchResults :
         Post(postSearchResolved(post, supabaseEnv, now, linkupResult))

SearchRejects ==
    /\ post.pc = "awaitSearch"
    /\ Post(postSearchRejected(post, supabaseEnv, now))

GetUserResolves ==
    /\ post.pc = "awaitUser"
    /\ \E user \in Users : Post(postAfterUser(post, user))

\* cookies(), createServerClient or getUser throws: the outer catch answers
GetUserThrows ==
    /\ post.pc = "awaitUser"
    /\ Post(FailedResponse(post, "fetch failed"))

\* the database answers the search_runs insert: with the new row's id, or
\* with an error and no row
SearchRunInsertAnswers ==
    /\ post.pc = "awaitSearchRun"
    /\ \/ LET id == <<"run-", Len(db.search_runs) + 1>>
          IN  /\ db' = [db EXCEPT !.search_runs =
                           Append(@, post.inserts[Len(post.inserts)].rows[1]
                                         @@ [id |-> id])]
              /\ post' = postAfterSearchRun(post, [ok |-> TRUE, id |-> id])
       \/ /\ db' = db
          /\ post' = postAfterSearchRun(post, [ok |-> FALSE])
    /\ UNCHANGED <<orchestratorInstance, now, turn, linkupClient, supabaseEnv>>

\* the database answers the recommendations insert: the rows are stored, or
\* an error is returned, which POST does not look at
RecommendationsInsertAnswers ==
    /\ post.pc = "awaitRecommendations"
    /\ \/ db' = [db EXCEPT !.recommendations =
                    @ \o post.inserts[Len(post.inserts)].rows]
       \/ db' = db
    /\ post' = FinalResponse(post)
    /\ UNCHANGED <<orchestratorInstance, now, turn, linkupClient, supabaseEnv>>

NextRoute ==
    \/ PostCalled
    \/ PostBodyUnreadable
    \/ SearchResolves
    \/ SearchRejects
    \/ GetUserResolves
    \/ GetUserThrows
    \/ SearchRunInsertAnswers
    \/ RecommendationsInsertAnswers

SpecRoute == InitRoute /\ [][NextRoute]_vars

-----------------------------------------------------------------------------
(* Vocabulary of the properties *)

Frames == {turn[t] : t \in Turns}

\* run returned an OrchestratorResult
Returned(f) == f.pc = "done"

\* run threw
Failed(f) == f.pc = "failed"

\* analyzeConversation returned a directive
HasDirective(f) == f.analysis # Null

Collecting(f) == HasDirective(f) /\ f.analysis.stage = "collecting"

NonCollecting(f) == HasDirective(f) /\ f.analysis.stage # "collecting"

\* requests sent to the search, extraction and text-generation collaborators
DownstreamRequests(f) ==
    Len(f.linkupRequests) + Len(f.scoutRequests) + Len(f.composerRequests)

\* callLinkup was called in this turn and has returned: run calls the
\* extractor or the composer right after it
GatewayReturned(f) ==
    /\ NonCollecting(f)
    /\ f.analysis.should_call_linkup
    /\ Len(f.scoutRequests) + Len(f.composerRequests) > 0

\* the analyzer's answer holds no directive: no text, text that is not JSON,
\* or the JSON null
NoDirectiveIn(response) ==
    \/ ~Has(response, "output_text")
    \/ ~Has(response.output_text, "json")
    \/ response.output_text.json = Null

-----------------------------------------------------------------------------
(* C1 - collecting short-circuit *)

\* C1: a turn whose directive has stage "collecting" returns at once, with no
\* search outcomes, no extraction record, empty parameters, and the directive's
\* follow_up_question as assistantMessage when the directive has one, whatever
\* should_call_linkup, should_call_scout and search_queries are.
C1_CollectingShortCircuit ==
    \A f \in Frames :
        Collecting(f) =>
            /\ Returned(f)
            /\ f.result.linkup.results = <<>>
            /\ f.result.scout = Null
            /\ f.result.parameters = {}
            /\ Has(f.analysis, "follow_up_question") =>
                   f.result.assistantMessage = f.analysis.follow_up_question

C1_Witness ==
    \E f \in Frames :
        /\ Returned(f) /\ Collecting(f)
        /\ f.analysis.should_call_linkup /\ f.analysis.should_call_scout
        /\ Len(f.analysis.search_queries) = MaxQueries
        /\ Has(f.analysis, "follow_up_question")
        /\ f.analysis.follow_up_question = FollowUpQuestion
        /\ f.result.assistantMessage = FollowUpQuestion

-----------------------------------------------------------------------------
(* C2 - outcome cardinality *)

\* C2 as stated: every result has as many search outcomes as its directive
\* has search queries.
C2_OutcomeCardinality ==
    \A f \in Frames :
        Returned(f) =>
            Len(f.result.linkup.results) = Len(f.result.analysis.search_queries)

\* C2 amended: a result of a non-collecting turn whose directive has
\* should_call_linkup true has exactly one outcome per search query, whatever
\* the mix of successes and failures; a result of a collecting turn or of a
\* turn whose directive has should_call_linkup false has no outcome.
C2_GatedOutcomeCardinality ==
    \A f \in Frames :
        Returned(f) =>
            Len(f.result.linkup.results) =
                IF NonCollecting(f) /\ f.analysis.should_call_linkup
                THEN Len(f.analysis.search_queries)
                ELSE 0

C2_Witness ==
    \E f \in Frames :
        /\ Returned(f) /\ NonCollecting(f) /\ f.analysis.should_call_linkup
        /\ Len(f.result.linkup.results) = MaxQueries
        /\ \E i, j \in 1..MaxQueries :
               f.result.linkup.results[i].ok /\ ~f.result.linkup.results[j].ok

-----------------------------------------------------------------------------
(* C3 - only an analyzer failure fails the turn *)

\* C3: once analyzeConversation has returned a directive, run returns a
\* result: it does not throw.
C3_OnlyAnalysisFailureSurfaces ==
    \A f \in Frames : Failed(f) => ~HasDirective(f)

-----------------------------------------------------------------------------
(* C4 - the directive is validated *)

\* C4: run goes on to search, extraction or composition, or returns a result,
\* only with a directive that conforms to the ScoutPlanningDirective schema; a
\* parsed directive that does not conform fails the turn.
C4_DirectiveValidated ==
    \A f \in Frames :
        HasDirective(f) /\ ~ConformsToSchema(f.analysis) =>
            /\ Failed(f)
            /\ DownstreamRequests(f) = 0

-----------------------------------------------------------------------------
(* C5 - an unparseable analysis aborts the turn *)

\* C5: when the analyzer's answer holds no directive, run throws, resolves
\* with no result, and has sent no request to the search, extraction or
\* text-generation collaborator.
C5_UnparseableAborts ==
    \A f \in Frames :
        (f.analyzerAnswers # <<>> /\ NoDirectiveIn(f.analyzerAnswers[1])) =>
            /\ Failed(f)
            /\ f.error = ANALYSIS_FAILED
            /\ f.result = Null
            /\ DownstreamRequests(f) = 0

C5_Witness ==
    \E f \in Frames :
        /\ f.analyzerAnswers # <<>>
        /\ Has(f.analyzerAnswers[1], "output_text")
        /\ f.analyzerAnswers[1].output_text = MalformedText
        /\ Failed(f)

-----------------------------------------------------------------------------
(* C6 - an unconfigured search collaborator *)

\* the instance lacks the Linkup endpoint or the Linkup credential
ConfigMissing ==
    \/ orchestratorInstance.linkupApiUrl = ""
    \/ ~Has(orchestratorInstance, "linkupApiKey")
    \/ orchestratorInstance.linkupApiKey = ""

ConfigMissingReasons == {<<"Linkup API key missing">>, <<"Linkup API not configured">>}

\* C6: with the endpoint or the credential missing, callLinkup sends no
\* request, and returns for every query one failed outcome whose error is a
\* missing-configuration reason; no outcome of an attempted request carries
\* such a reason.
C6_UnconfiguredNoNetwork ==
    \A f \in Frames :
        /\ ConfigMissing =>
               /\ f.linkupRequests = <<>>
               /\ GatewayReturned(f) =>
                      /\ Len(f.linkupResults) = Len(f.analysis.search_queries)
                      /\ \A i \in 1..Len(f.linkupResults) :
                             /\ ~f.linkupResults[i].ok
                             /\ f.linkupResults[i].error \in ConfigMissingReasons
        /\ ~ConfigMissing =>
               \A i \in 1..Len(f.results) :
                   ~f.results[i].ok => f.results[i].error \notin ConfigMissingReasons

C6_Witness ==
    \E f \in Frames :
        /\ ConfigMissing
        /\ GatewayReturned(f)
        /\ Len(f.linkupResults) = MaxQueries
        /\ Returned(f)

-----------------------------------------------------------------------------
(* C7 - every query is attempted, failures are isolated *)

\* the fetch of a query was answered with a 2xx and a JSON body
Succeeded(reply) == reply.kind = "response" /\ reply.ok /\ Has(reply.body, "json")

\* C7: with Linkup configured, callLinkup sends at most one request per
\* query, in query order, and when it has returned it has sent exactly one
\* per query and outcome i is failed exactly when the answer to request i
\* was a non-success status or a rejection, whatever the other answers were.
C7_EveryQueryAttemptedOnce ==
    \A f \in Frames :
        (~ConfigMissing /\ NonCollecting(f)) =>
            /\ Len(f.linkupRequests) <= Len(f.analysis.search_queries)
            /\ \A i \in 1..Len(f.linkupRequests) :
                   f.linkupRequests[i].body.q = f.analysis.search_queries[i]
            /\ GatewayReturned(f) =>
                   /\ Len(f.linkupRequests) = Len(f.analysis.search_queries)
                   /\ Len(f.linkupAnswers) = Len(f.analysis.search_queries)
                   /\ Len(f.linkupResults) = Len(f.analysis.search_queries)
                   /\ \A i \in 1..Len(f.linkupResults) :
                          f.linkupResults[i].ok = Succeeded(f.linkupAnswers[i])

C7_Witness ==
    \E f \in Frames :
        /\ ~ConfigMissing /\ GatewayReturned(f)
        /\ Len(f.linkupAnswers) = MaxQueries
        /\ f.linkupAnswers[1].kind = "reject"
        /\ Succeeded(f.linkupAnswers[MaxQueries])
        /\ f.linkupResults[MaxQueries].ok

-----------------------------------------------------------------------------
(* C8 - one outcome per query, in request order *)

\* C8: whenever callLinkup has returned, configured or not, it has returned
\* one outcome per query and outcome i carries query i.
C8_OutcomesInRequestOrder ==
    \A f \in Frames :
        GatewayReturned(f) =>
            /\ Len(f.linkupResults) = Len(f.analysis.search_queries)
            /\ \A i \in 1..Len(f.linkupResults) :
                   /\ f.linkupResults[i].query = f.analysis.search_queries[i]
                   /\ f.linkupResults[i].payload.q = f.analysis.search_queries[i]

C8_Witness ==
    \E f \in Frames :
        /\ GatewayReturned(f) /\ ~ConfigMissing
        /\ Len(f.linkupResults) = MaxQueries
        /\ f.linkupResults[1].query # f.linkupResults[MaxQueries].query
        /\ ~f.linkupResults[1].ok /\ f.linkupResults[MaxQueries].ok

-----------------------------------------------------------------------------
(* C9 - degraded extraction *)

\* the extraction collaborator answered this turn with an error status
ExtractionErrorStatus(f) == f.scoutAnswers # <<>> /\ ~f.scoutAnswers[1].ok

\* C9: a non-collecting turn with should_call_scout true whose extraction
\* request is answered with an error status runs to completion: it returns a
\* result with empty parameters, an extraction record with empty parameters and
\* an error entry in meta, and a non-empty assistantMessage.
C9_DegradedExtraction ==
    \A f \in Frames :
        (ExtractionErrorStatus(f) /\ f.pc \in {"done", "failed"}) =>
            /\ Returned(f)
            /\ f.result.parameters = {}
            /\ f.result.scout.parameters = {}
            /\ \E m \in f.result.scout.meta : m[1] = "error"
            /\ f.result.assistantMessage # EmptyText

-----------------------------------------------------------------------------
(* C10 - the assistant message is never empty *)

\* C10: every result run returns has a non-empty assistantMessage.
C10_MessageNonEmpty ==
    \A f \in Frames : Returned(f) => f.result.assistantMessage # EmptyText

-----------------------------------------------------------------------------
(* C11 - the composer's fallback *)

\* the text-generation call of this turn raised, or yielded no text
ComposerFailed(f) ==
    /\ f.composerRequests # <<>>
    /\ f.pc \in {"done", "failed"}
    /\ \/ f.composerAnswers = <<>>
       \/ ~Has(f.composerAnswers[1], "output_text")

\* C11: when the composer's text-generation call raises or yields no text, the
\* turn still returns a result, and its assistantMessage is the static
\* fallback message.
C11_ComposerFallback ==
    \A f \in Frames :
        ComposerFailed(f) =>
            /\ Returned(f)
            /\ f.result.assistantMessage = FINAL_FALLBACK

-----------------------------------------------------------------------------
(* C12 - a supplied session id is preserved *)

\* C12: when the caller supplies a session id, every result of the turn,
\* collecting or not, carries exactly that id, and every request sent to the
\* extraction collaborator in that turn carries it.
C12_SessionIdPreserved ==
    \A f \in Frames :
        (f.opts # Null /\ Has(f.opts, "sessionId")) =>
            /\ f.resolvedSessionId = f.opts.sessionId
            /\ Returned(f) => f.result.sessionId = f.opts.sessionId
            /\ \A i \in 1..Len(f.scoutRequests) :
                   f.scoutRequests[i].session_id = f.opts.sessionId

C12_Witness ==
    \E f \in Frames :
        /\ f.opts # Null /\ Has(f.opts, "sessionId")
        /\ Returned(f) /\ NonCollecting(f)
        /\ Len(f.scoutRequests) = 1
        /\ f.scoutRequests[1].session_id = <<"s1">>
        /\ f.result.sessionId = <<"s1">>

-----------------------------------------------------------------------------
(* C13 - generated session ids *)

\* run was called without a session id
GeneratedId(f) == f.opts # Null /\ ~Has(f.opts, "sessionId")

\* C13: a turn that omits the session id gets a non-empty generated id, and
\* two turns that both omit it get different ids.
C13_GeneratedIdsUnique ==
    /\ \A f \in Frames : GeneratedId(f) => f.resolvedSessionId # <<>>
    /\ \A t1, t2 \in Turns :
           (t1 # t2 /\ GeneratedId(turn[t1]) /\ GeneratedId(turn[t2])) =>
               turn[t1].resolvedSessionId # turn[t2].resolvedSessionId

-----------------------------------------------------------------------------
(* C14 - the two gates *)

\* run has evaluated both gates: it calls the extractor or the composer right
\* after the search gate
PastGates(f) == Len(f.scoutRequests) + Len(f.composerRequests) > 0

\* C14: in a turn whose stage is searching or finalizing, callLinkup is called
\* only if should_call_linkup is true and the extraction request is sent only
\* if should_call_scout is true; once run is past both gates, callLinkup has
\* been called exactly when should_call_linkup is true and the extraction
\* request sent exactly when should_call_scout is true, whatever the stage,
\* the other flag and the query list are.
C14_GatesIndependent ==
    \A f \in Frames :
        (HasDirective(f) /\ f.analysis.stage \in {"searching", "finalizing"}) =>
            /\ f.linkupCalls > 0 => f.analysis.should_call_linkup
            /\ f.linkupRequests # <<>> => f.analysis.should_call_linkup
            /\ f.scoutRequests # <<>> => f.analysis.should_call_scout
            /\ PastGates(f) =>
                   /\ (f.linkupCalls = 1) = f.analysis.should_call_linkup
                   /\ (Len(f.scoutRequests) = 1) = f.analysis.should_call_scout

C14_Witness ==
    \E f \in Frames :
        /\ Returned(f)
        /\ f.analysis.stage = "searching"
        /\ ~f.analysis.should_call_linkup /\ f.analysis.should_call_scout
        /\ Len(f.analysis.search_queries) = MaxQueries
        /\ f.linkupCalls = 0 /\ f.linkupRequests = <<>>
        /\ Len(f.scoutRequests) = 1

-----------------------------------------------------------------------------
(* C15 - the composer always runs *)

\* C15: a non-collecting turn with a conforming directive calls the composer
\* at most once, only when every search and extraction request of the turn
\* has been answered, and has called it exactly once when the turn ends.
C15_ComposerAlwaysRuns ==
    \A f \in Frames :
        (NonCollecting(f) /\ ConformsToSchema(f.analysis)) =>
            /\ Len(f.composerRequests) <= 1
            /\ f.composerRequests # <<>> =>
                   /\ Len(f.linkupAnswers) = Len(f.linkupRequests)
                   /\ Len(f.scoutAnswers) = Len(f.scoutRequests)
            /\ f.pc \in {"done", "failed"} => Len(f.composerRequests) = 1

-----------------------------------------------------------------------------
(* C16 - one extraction request per turn *)

\* C16: a turn sends at most one request to the extraction collaborator; a
\* request answered with an error status is not sent again.
C16_OneExtractionRequest ==
    \A f \in Frames :
        /\ Len(f.scoutRequests) <= 1
        /\ Len(f.scoutAnswers) <= Len(f.scoutRequests)
        /\ ExtractionErrorStatus(f) =>
               /\ Len(f.scoutRequests) = 1
               /\ f.pc # "awaitScout"

C16_Witness ==
    \E f \in Frames :
        /\ ExtractionErrorStatus(f)
        /\ Returned(f)
        /\ Len(f.scoutRequests) = 1

-----------------------------------------------------------------------------
(* C18 - single flight per session *)

\* run was called with a session id
SuppliedId(f) == f.opts # Null /\ Has(f.opts, "sessionId")

\* C18: two calls of run that are in progress at the same time never have the
\* same session id (stated for the ids callers supply, so that it does not
\* rest on how ids are generated).
C18_SingleFlight ==
    \A t1, t2 \in Turns :
        (/\ t1 # t2
         /\ Suspended(turn[t1]) /\ SuppliedId(turn[t1])
         /\ Suspended(turn[t2]) /\ SuppliedId(turn[t2])) =>
            turn[t1].resolvedSessionId # turn[t2].resolvedSessionId

-----------------------------------------------------------------------------
(* C19 - every external call times out *)

\* C19: a call of run that is suspended at an external call can always be
\* resumed: when the collaborator never answers, a timeout settles the await.
C19_TurnNeverStuck ==
    \A t \in Turns : Suspended(turn[t]) => ENABLED Resume(t)

-----------------------------------------------------------------------------
(* C20 - cancellation *)

\* C20: once the caller has abandoned a call of run, that call sends no
\* further request and produces no result.
C20_CancelAbandons ==
    \A f \in Frames :
        f.cancelled =>
            /\ f.result = Null
            /\ RequestsSent(f) = f.sentAtCancel

-----------------------------------------------------------------------------
(* C17 - the conversation window *)

\* C17: the conversation sent to the analyzer is the last min(n, 6) messages
\* of the n messages the caller passed, in their order.
C17_WindowIsSuffix ==
    \A f \in Frames :
        f.analyzerRequests # <<>> =>
            LET m == f.opts.messages
                w == f.analyzerRequests[1].conversation
                k == IF Len(m) < 6 THEN Len(m) ELSE 6
            IN  /\ Len(w) = k
                /\ \A i \in 1..k : w[i] = m[Len(m) - k + i]

C17_Witness ==
    \E f \in Frames :
        /\ f.analyzerRequests # <<>>
        /\ Len(f.opts.messages) = MaxHistory
        /\ Len(f.analyzerRequests[1].conversation) = 6
        /\ f.analyzerRequests[1].conversation[1] # f.opts.messages[1]
        /\ f.analyzerRequests[1].conversation[6] = f.opts.messages[MaxHistory]

-----------------------------------------------------------------------------
(* C21 - calls of run share no mutable state *)

\* a search outcome without its measured latency
WithoutLatency(outcome) == [k \in DOMAIN outcome \ {"took_ms"} |-> outcome[k]]

\* what a result says apart from the session id and the measured latencies
SessionFree(result) ==
    [ stage |-> result.stage,
      assistantMessage |-> result.assistantMessage,
      missingInformation |-> result.missingInformation,
      analysis |-> result.analysis,
      parameters |-> result.parameters,
      queries |-> result.linkup.queries,
      attempted |-> result.linkup.attempted,
      results |-> [i \in DOMAIN result.linkup.results |->
                      WithoutLatency(result.linkup.results[i])],
      scout |-> IF result.scout = Null
                THEN Null
                ELSE [k \in DOMAIN result.scout \ {"session_id"} |-> result.scout[k]],
      meta |-> result.meta ]

\* the two calls of run got the same arguments apart from the session id, and
\* the same answers to their own requests
SameInputs(f, g) ==
    /\ f.opts.messages = g.opts.messages
    /\ f.opts.useFullHistory = g.opts.useFullHistory
    /\ f.analyzerAnswers = g.analyzerAnswers
    /\ f.linkupAnswers = g.linkupAnswers
    /\ f.scoutAnswers = g.scoutAnswers
    /\ f.composerAnswers = g.composerAnswers

\* C21: a step of one call of run changes neither the instance nor the frame
\* of another call; two calls of different sessions that got the same
\* arguments and the same answers return the same result (apart from the
\* session id and the measured latencies); and while a call of one session is
\* suspended, a call of another session can be started, and one whose await
\* can settle can be resumed.
C21_TurnsIsolated ==
    /\ [][ /\ orchestratorInstance' = orchestratorInstance
           /\ \A t, u \in Turns :
                  (t # u /\ turn'[t] # turn[t]) => turn'[u] = turn[u] ]_vars
    /\ [](\A t, u \in Turns :
              (/\ t # u
               /\ Returned(turn[t]) /\ Returned(turn[u])
               /\ turn[t].resolvedSessionId # turn[u].resolvedSessionId
               /\ SameInputs(turn[t], turn[u])) =>
                  SessionFree(turn[t].result) = SessionFree(turn[u].result))
    /\ [](\A t, u \in Turns :
              (t # u /\ Suspended(turn[t])) =>
                  /\ turn[u].pc = "idle" => ENABLED RunWith(u, ConcRunOptions)
                  /\ (/\ Suspended(turn[u]) /\ ~turn[u].hung
                      /\ turn[u].resolvedSessionId # turn[t].resolvedSessionId) =>
                         ENABLED Resume(u))

C21_Witness ==
    \E t, u \in Turns :
        /\ t # u
        /\ turn[t].pc = "awaitLinkup" /\ turn[t].hung
        /\ Returned(turn[u]) /\ NonCollecting(turn[u])
        /\ turn[u].resolvedSessionId # turn[t].resolvedSessionId
        /\ Len(turn[u].linkupAnswers) = 1 /\ Len(turn[u].scoutAnswers) = 1

-----------------------------------------------------------------------------
(* C22 - a collecting turn has no side effects *)

\* C22: a turn whose directive has stage "collecting" has returned as soon as
\* the analyzer has answered, and has neither called callLinkup nor sent a
\* request to the search, extraction or text-generation collaborator,
\* whatever should_call_linkup and should_call_scout are; the analyzer got
\* one request.
C22_CollectingNoSideEffects ==
    \A f \in Frames :
        Collecting(f) =>
            /\ Returned(f)
            /\ f.linkupCalls = 0
            /\ f.linkupRequests = <<>>
            /\ f.scoutRequests = <<>>
            /\ f.composerRequests = <<>>
            /\ Len(f.analyzerRequests) = 1

C22_Witness ==
    \E f \in Frames :
        /\ Collecting(f) /\ Returned(f)
        /\ f.analysis.should_call_linkup /\ f.analysis.should_call_scout
        /\ Len(f.analysis.search_queries) > 0
        /\ ~ConfigMissing
        /\ DownstreamRequests(f) = 0

-----------------------------------------------------------------------------
(* C23 - latency of the attempted outcomes *)

\* C23: every outcome callLinkup pushes for a request it sent and that was
\* answered (a 2xx, another status, or a rejected fetch) carries took_ms.
C23_LatencyRecorded ==
    \A f \in Frames :
        \A i \in 1..Len(f.results) :
            i <= Len(f.linkupAnswers) => Has(f.results[i], "took_ms")

-----------------------------------------------------------------------------
(* C25 - the order of the external calls of a turn *)

\* C25: a turn sends a request to the search, extraction or text-generation
\* collaborator only when the analyzer has answered; it sends the search
\* requests one at a time, request i for query i, each only when the one
\* before it has been answered; it sends the extraction request only when
\* every search request of the turn has been sent and answered; and it calls
\* the composer only when, moreover, the extraction request has been answered
\* or the directive's should_call_scout is false.
C25_CallsOrdered ==
    \A f \in Frames :
        LET searchDone ==
                /\ Len(f.linkupAnswers) = Len(f.linkupRequests)
                /\ (f.analysis.should_call_linkup /\ ~ConfigMissing) =>
                       Len(f.linkupRequests) = Len(f.analysis.search_queries)
        IN  /\ DownstreamRequests(f) > 0 =>
                   /\ Len(f.analyzerRequests) = 1 /\ Len(f.analyzerAnswers) = 1
                   /\ HasDirective(f)
            /\ Len(f.linkupAnswers) <= Len(f.linkupRequests)
            /\ Len(f.linkupRequests) <= Len(f.linkupAnswers) + 1
            /\ \A i \in 1..Len(f.linkupRequests) :
                   f.linkupRequests[i].body.q = f.analysis.search_queries[i]
            /\ f.pc = "awaitLinkup" =>
                   /\ Len(f.linkupRequests) = Len(f.linkupAnswers) + 1
                   /\ f.scoutRequests = <<>> /\ f.composerRequests = <<>>
            /\ f.scoutRequests # <<>> => searchDone
            /\ f.pc = "awaitScout" => f.composerRequests = <<>>
            /\ f.composerRequests # <<>> =>
                   /\ searchDone
                   /\ Len(f.scoutAnswers) = Len(f.scoutRequests)
                   /\ (Len(f.scoutRequests) = 1) = f.analysis.should_call_scout

C25_Witness ==
    \E f \in Frames :
        /\ Returned(f) /\ NonCollecting(f)
        /\ Len(f.linkupRequests) = MaxQueries /\ Len(f.linkupAnswers) = MaxQueries
        /\ Len(f.scoutRequests) = 1 /\ Len(f.scoutAnswers) = 1
        /\ Len(f.composerRequests) = 1 /\ Len(f.composerAnswers) = 1

-----------------------------------------------------------------------------
(* C26 - a failed extraction is an empty extraction *)

\* the frame of a call of run suspended at the extraction request, continued
\* with the answer `reply`
ContinuedWith(f, reply) ==
    runAfterScout(orchestratorInstance,
                  [f EXCEPT !.scoutAnswers = Append(@, reply)],
                  callScoutProcessorReturn(f, reply))

ErrorStatusReply == [ok |-> FALSE, status |-> 500]

EmptyParametersReply ==
    [ok |-> TRUE, status |-> 200, data |-> [prompt |-> "p", parameters |-> {}, meta |-> {}]]

\* C26: from any call of run suspended at the extraction request, the
\* continuation with an error status and the continuation with a success
\* whose parameters are empty hand the same request, with parameters {}, to
\* the composer, and for the same answer of the composer return results
\* whose parameters are both {} and that differ in nothing but the extraction
\* record; a turn that skipped the extraction hands {} to the composer and
\* returns {} as well.
C26_FailedAsEmpty ==
    \A f \in Frames :
        /\ f.pc = "awaitScout" =>
               LET failed == ContinuedWith(f, ErrorStatusReply)
                   empty == ContinuedWith(f, EmptyParametersReply)
               IN  /\ failed.composerRequests = empty.composerRequests
                   /\ failed.composerRequests[1].parameters = {}
                   /\ \A response \in ComposerResponses :
                          LET r1 == runAfterCompose(orchestratorInstance, failed,
                                                    response).result
                              r2 == runAfterCompose(orchestratorInstance, empty,
                                                    response).result
                          IN  /\ r1.parameters = {} /\ r2.parameters = {}
                              /\ [r1 EXCEPT !.scout = Null] = [r2 EXCEPT !.scout = Null]
        /\ (/\ f.composerRequests # <<>>
            /\ \/ f.scoutRequests = <<>>
               \/ ExtractionErrorStatus(f)
               \/ f.scoutAnswers[1] = EmptyParametersReply) =>
               /\ f.composerRequests[1].parameters = {}
               /\ Returned(f) => f.result.parameters = {}

C26_Witness ==
    \E f \in Frames :
        /\ Returned(f) /\ ExtractionErrorStatus(f)
        /\ f.result.scout # Null
        /\ f.composerRequests[1].parameters = {}
        /\ f.result.parameters = {}
        /\ f.linkupAnswers # <<>>

-----------------------------------------------------------------------------
(* C27 - the extraction request *)

\* the directive's scout_prompt when it has one, otherwise its summary
ExpectedOverride(analysis) ==
    IF Has(analysis, "scout_prompt") THEN analysis.scout_prompt ELSE analysis.summary

\* C27: every extraction request carries the turn's resolved session id, the
\* caller's useFullHistory, the caller's whole message list, and as
\* prompt_override the directive's scout_prompt when it has one and otherwise
\* its summary (no prompt_override when the directive has neither); the
\* record callScoutProcessor returns for an error status carries that same
\* override as prompt, the session id and empty parameters.
C27_ExtractionRequest ==
    \A f \in Frames :
        \A i \in 1..Len(f.scoutRequests) :
            LET request == f.scoutRequests[i]
                hasOverride ==
                    Has(f.analysis, "scout_prompt") \/ Has(f.analysis, "summary")
            IN  /\ request.session_id = f.resolvedSessionId
                /\ request.use_full_history = f.opts.useFullHistory
                /\ request.messages = f.opts.messages
                /\ Has(request, "prompt_override") = hasOverride
                /\ hasOverride =>
                       request.prompt_override = ExpectedOverride(f.analysis)
                /\ (ExtractionErrorStatus(f) /\ f.scoutResponse # Null) =>
                       /\ Has(f.scoutResponse, "prompt") = hasOverride
                       /\ hasOverride =>
                              /\ f.scoutResponse.prompt = request.prompt_override
                              /\ f.scoutResponse.prompt = ExpectedOverride(f.analysis)
                       /\ f.scoutResponse.session_id = f.resolvedSessionId

C27_Witness ==
    \E f \in Frames :
        /\ Returned(f) /\ ExtractionErrorStatus(f)
        /\ Has(f.analysis, "scout_prompt")
        /\ f.analysis.scout_prompt # f.analysis.summary
        /\ Len(f.scoutRequests[1].messages) > PRUNE_LIMIT
        /\ f.scoutRequests[1].prompt_override = f.analysis.scout_prompt
        /\ f.result.scout.prompt = f.analysis.scout_prompt
        /\ ~Has(f.opts, "sessionId")

-----------------------------------------------------------------------------
(* C28 - the result is consistent with the directive *)

\* C28: every result run returns carries the stage, the missing_information
\* and the search_queries of the directive the analyzer returned, and that
\* directive itself, unmodified; in a non-collecting turn its search outcomes
\* and its parameters are those of the request to the composer; its
\* linkup.attempted is true only if callLinkup was called in the turn, and is
\* false in every collecting turn.
C28_ResultConsistent ==
    \A f \in Frames :
        Returned(f) =>
            LET directive == f.analyzerAnswers[1].output_text.json
            IN  /\ f.result.analysis = directive
                /\ f.result.stage = directive.stage
                /\ f.result.missingInformation = directive.missing_information
                /\ f.result.linkup.queries = directive.search_queries
                /\ f.result.linkup.attempted => f.linkupCalls = 1
                /\ Collecting(f) => ~f.result.linkup.attempted
                /\ NonCollecting(f) =>
                       /\ Len(f.composerRequests) = 1
                       /\ f.composerRequests[1].analysis = directive
                       /\ f.result.linkup.results = f.composerRequests[1].linkupResults
                       /\ f.result.parameters = f.composerRequests[1].parameters
                       /\ f.result.meta.linkupAttempted = f.result.linkup.attempted
                       /\ f.result.meta.linkupAttempted => f.linkupCalls = 1

C28_Witness ==
    \E f \in Frames :
        /\ Returned(f) /\ NonCollecting(f)
        /\ ~f.result.linkup.attempted
        /\ Len(f.result.linkup.queries) = MaxQueries
        /\ f.linkupCalls = 0
        /\ f.result.parameters = SomeParameters
        /\ f.composerRequests[1].parameters = SomeParameters

-----------------------------------------------------------------------------
(* C24 - POST /api/scout-process when Linkup is unavailable *)

\* req.json() resolved with this call's body
BodyRead(p) == p.pc # "idle" /\ ~Has(p.body, "null")

\* the body has a non-empty query
HasQuery(p) == BodyRead(p) /\ Has(p.body, "query") /\ p.body.query # <<>>

\* C24: a call with a non-empty query, when the Linkup client is not
\* initialized, sends no search and is answered 200 with the mock
\* recommendations for the query and linkupResponse null; when the search
\* rejects, the recommendations are the mock recommendations and the call
\* goes on: it is answered 500 only if it got as far as the Supabase calls,
\* and otherwise 200 with those recommendations.
C24_LinkupUnavailableNo500 ==
    /\ (HasQuery(post) /\ linkupClient = Null) =>
           /\ post.pc = "done"
           /\ post.searchRequests = <<>>
           /\ post.response.status = 200
           /\ post.response.body.linkupResponse = Null
           /\ post.response.body.recommendations =
                  getMockRecommendations(extractSearchParameters(post.body.query), now)
    /\ post.searchRejected =>
           /\ Len(post.searchRequests) = 1
           /\ post.recommendations = getMockRecommendations(post.searchParams, now)
           /\ post.pc \in {"done", "awaitUser", "awaitSearchRun", "awaitRecommendations"}
           /\ post.pc = "done" =>
                  \/ /\ post.response.status = 200
                     /\ post.response.body.recommendations = post.recommendations
                  \/ /\ post.response.status = 500
                     /\ supabaseEnv

C24_Witness ==
    /\ post.searchRejected
    /\ post.pc = "done"
    /\ post.response.status = 200
    /\ Len(post.response.body.recommendations) = MOCK_LIMIT
    /\ Len(post.inserts) = 2

-----------------------------------------------------------------------------
(* C29 - the match scores of POST /api/scout-process *)

\* the recommendations of the answer came from parsing a Linkup result
FromLinkup(p) == p.linkupResultAssigned /\ ~parseThrows(p.linkupResult)

\* C29: every recommendation POST returns has a score from 0 to 100, the
\* list is sorted by score, highest first, and it has at most 10 entries
\* when it was parsed from a Linkup result and at most 5 when it is mock
\* data.
C29_ScoresBounded ==
    (post.pc = "done" /\ Has(post.response.body, "recommendations")) =>
        LET recs == post.response.body.recommendations
        IN  /\ \A i \in DOMAIN recs : recs[i].score >= 0 /\ recs[i].score <= 100
            /\ \A i, j \in DOMAIN recs : i < j => recs[i].score >= recs[j].score
            /\ Len(recs) <= IF FromLinkup(post) THEN LINKUP_LIMIT ELSE MOCK_LIMIT

-----------------------------------------------------------------------------
(* C30 - the database writes of POST /api/scout-process *)

\* C30: a call whose body has no query is answered 400 and has sent no
\* search and no insert; an insert is sent, and a row stored, only for an
\* authenticated user and a body with a sessionId; the first insert of a call
\* is into search_runs, and an insert into recommendations is sent only when
\* that insert has stored its row, whose id every recommendations row
\* carries.
C30_WritesGuarded ==
    /\ (BodyRead(post) /\ ~HasQuery(post)) =>
           /\ post.pc = "done"
           /\ post.response.status = 400
           /\ post.searchRequests = <<>>
           /\ post.inserts = <<>>
    /\ (post.inserts # <<>> \/ db # EmptyDb) =>
           /\ HasQuery(post)
           /\ post.user # Null
           /\ Has(post.body, "sessionId") /\ post.body.sessionId # ""
           /\ Len(post.inserts) <= 2
           /\ post.inserts[1].table = "search_runs"
           /\ post.inserts[1].rows[1].session_id = post.body.sessionId
           /\ post.inserts[1].rows[1].user_id = post.user.id
    /\ Len(post.inserts) = 2 =>
           /\ post.inserts[2].table = "recommendations"
           /\ Len(db.search_runs) = 1
           /\ \A i \in DOMAIN post.inserts[2].rows :
                  /\ post.inserts[2].rows[i].search_run_id = db.search_runs[1].id
                  /\ post.inserts[2].rows[i].session_id = post.body.sessionId
    /\ \A i \in DOMAIN db.recommendations :
           \E j \in DOMAIN db.search_runs :
               db.recommendations[i].search_run_id = db.search_runs[j].id

C30_Witness ==
    /\ post.pc = "done"
    /\ post.linkupResultAssigned
    /\ Len(db.search_runs) = 1
    /\ Len(db.recommendations) = LINKUP_LIMIT
    /\ post.response.status = 200

====
